---------------------------- MODULE Spec2Model ----------------------------
(***************************************************************************)
(* A model of the two command-line utilities of goit-pycore-hw-05:         *)
(*   task_3.py  the log summarizer (parse_log_line, load_logs,             *)
(*              filter_logs_by_level, count_logs_by_level,                 *)
(*              display_log_counts, main);                                 *)
(*   task_4.py  the contact-book assistant (parse_input, add_contact,      *)
(*              change_contact, show_phone, show_all, main).               *)
(*                                                                         *)
(* A Python string is a sequence of characters; a character is a TLA+      *)
(* string of length one, except the three non-ASCII characters the case    *)
(* conversions treat specially, which are written by their code point:     *)
(* "U+0130" (capital I with dot above), "U+0131" (small dotless i) and     *)
(* "U+0307" (combining dot above).                                         *)
(***************************************************************************)
EXTENDS Integers, Sequences, FiniteSets, TLC

VARIABLES
    \* parse_log_line applied to one line (SpecParse)
    line,       \* the argument of parse_log_line
    nPieces,    \* how many pieces were appended to the line
    parsed,     \* what the call did: a record returned or a ValueError raised
    \* one run of task_3.main (Spec)
    argv,       \* sys.argv
    pc,         \* where the run is
    fileOpen,   \* whether the file object of load_logs is open
    source,     \* the lines the file iterator has yielded so far
    logs,       \* load_logs' list
    eof,        \* whether the file iterator has reported its end
    exc,        \* the exception propagating out of the with block, or "none"
    out,        \* everything printed, in order
    exitCode,   \* the process's exit status, -1 while it runs
    \* one session of task_4.main (SpecBot)
    contacts,   \* the dict of main
    inputs,     \* the lines input() has returned so far
    response,   \* what the last iteration printed
    running     \* whether the while loop is still running

vars == <<line, nPieces, parsed, argv, pc, fileOpen, source, logs, eof, exc, out, exitCode,
          contacts, inputs, response, running>>

parseVars == <<line, nPieces, parsed>>
logVars == <<argv, pc, fileOpen, source, logs, eof, exc, out, exitCode>>
botVars == <<contacts, inputs, response, running>>

---------------------------------------------------------------------------
(* Python's str operations, as far as the two programs use them.          *)

ASCII_UPPER == <<"A","B","C","D","E","F","G","H","I","J","K","L","M",
                 "N","O","P","Q","R","S","T","U","V","W","X","Y","Z">>
ASCII_LOWER == <<"a","b","c","d","e","f","g","h","i","j","k","l","m",
                 "n","o","p","q","r","s","t","u","v","w","x","y","z">>

Range(s) == {s[i] : i \in DOMAIN s}

IndexIn(c, s) == CHOOSE i \in DOMAIN s : s[i] = c

\* the case pairs of the ASCII letters
TO_UPPER == [c \in Range(ASCII_LOWER) |-> ASCII_UPPER[IndexIn(c, ASCII_LOWER)]]
TO_LOWER == [c \in Range(ASCII_UPPER) |-> ASCII_LOWER[IndexIn(c, ASCII_UPPER)]]

WHITESPACE == {" ", "\t", "\n", "\r"}

\* str.isspace of one character (the whitespace strip() and split() remove)
IsSpace(c) == c \in WHITESPACE

\* str.upper of one character: a string, since a character may map to several
UpperChar(c) ==
    IF c \in DOMAIN TO_UPPER THEN <<TO_UPPER[c]>>
    ELSE IF c = "U+0131" THEN <<"I">>
    ELSE <<c>>

\* str.lower of one character
LowerChar(c) ==
    IF c \in DOMAIN TO_LOWER THEN <<TO_LOWER[c]>>
    ELSE IF c = "U+0130" THEN <<"i", "U+0307">>
    ELSE <<c>>

RECURSIVE Upper(_)
Upper(s) == IF s = <<>> THEN <<>> ELSE UpperChar(Head(s)) \o Upper(Tail(s))

RECURSIVE Lower(_)
Lower(s) == IF s = <<>> THEN <<>> ELSE LowerChar(Head(s)) \o Lower(Tail(s))

\* str.lstrip(chars)
RECURSIVE LStrip(_, _)
LStrip(s, chars) ==
    IF s # <<>> /\ Head(s) \in chars THEN LStrip(Tail(s), chars) ELSE s

\* str.rstrip(chars)
RECURSIVE RStrip(_, _)
RStrip(s, chars) ==
    IF s # <<>> /\ s[Len(s)] \in chars
    THEN RStrip(SubSeq(s, 1, Len(s) - 1), chars) ELSE s

\* str.strip()
Strip(s) == RStrip(LStrip(s, WHITESPACE), WHITESPACE)

\* the length of the longest prefix of s without whitespace
RECURSIVE TokenLen(_)
TokenLen(s) ==
    IF s = <<>> \/ IsSpace(Head(s)) THEN 0 ELSE 1 + TokenLen(Tail(s))

\* str.split(None, maxsplit): runs of whitespace separate the parts, at most
\* maxsplit splits are made (-1: no limit) and the last part keeps the rest
RECURSIVE Split(_, _)
Split(s, maxsplit) ==
    LET t == LStrip(s, WHITESPACE)
        n == TokenLen(t)
    IN  IF t = <<>> THEN <<>>
        ELSE IF maxsplit = 0 THEN <<t>>
        ELSE <<SubSeq(t, 1, n)>> \o Split(SubSeq(t, n + 1, Len(t)), maxsplit - 1)

---------------------------------------------------------------------------
(* LEVELS_RE = re.compile(r'(INFO|DEBUG|ERROR|WARNING)', re.IGNORECASE)   *)

INFO == <<"I","N","F","O">>
DEBUG == <<"D","E","B","U","G">>
ERROR == <<"E","R","R","O","R">>
WARNING == <<"W","A","R","N","I","N","G">>

\* the alternatives of the pattern, in the order the pattern lists them
LEVELS_RE == <<INFO, DEBUG, ERROR, WARNING>>

\* the regex engine's lower-casing of a character of the subject string: the
\* simple case mapping, one character to one character
SreLower(c) ==
    IF c \in DOMAIN TO_LOWER THEN TO_LOWER[c]
    ELSE IF c = "U+0130" THEN "i"
    ELSE c

\* the characters a literal of the pattern accepts under IGNORECASE, after the
\* subject's character was lower-cased: the literal's lower case and the
\* characters the engine holds equivalent to it (i and dotless i)
IgnoreCaseSet(p) ==
    LET lo == SreLower(p)
    IN  IF lo = "i" THEN {"i", "U+0131"} ELSE {lo}

\* whether alternative kw matches the subject s at offset i (1-based)
MatchAt(s, i, kw) ==
    /\ i + Len(kw) - 1 <= Len(s)
    /\ \A j \in 1..Len(kw) : SreLower(s[i + j - 1]) \in IgnoreCaseSet(kw[j])

NoMatch == [found |-> FALSE, start |-> 0, end |-> 0]

\* the first alternative, in the pattern's order, that matches at offset i
FirstAlternativeAt(s, i) ==
    IF \E k \in DOMAIN LEVELS_RE : MatchAt(s, i, LEVELS_RE[k])
    THEN LET k == CHOOSE k \in DOMAIN LEVELS_RE :
                    /\ MatchAt(s, i, LEVELS_RE[k])
                    /\ \A h \in 1..(k - 1) : ~MatchAt(s, i, LEVELS_RE[h])
         IN  [found |-> TRUE, start |-> i, end |-> i + Len(LEVELS_RE[k]) - 1]
    ELSE NoMatch

\* the scan of Pattern.search from offset i on: the first offset with a match
RECURSIVE SearchFrom(_, _)
SearchFrom(s, i) ==
    IF i > Len(s) THEN NoMatch
    ELSE IF FirstAlternativeAt(s, i).found THEN FirstAlternativeAt(s, i)
    ELSE SearchFrom(s, i + 1)

\* a plausible slip: the alternatives are tried one after the other over the
\* whole subject, so an earlier alternative wins over an earlier offset
SearchByAlternative(s) ==
    IF \E k \in DOMAIN LEVELS_RE, i \in DOMAIN s : MatchAt(s, i, LEVELS_RE[k])
    THEN LET k == CHOOSE k \in DOMAIN LEVELS_RE :
                    /\ \E i \in DOMAIN s : MatchAt(s, i, LEVELS_RE[k])
                    /\ \A h \in 1..(k - 1) :
                          \A i \in DOMAIN s : ~MatchAt(s, i, LEVELS_RE[h])
             i == CHOOSE i \in DOMAIN s :
                    /\ MatchAt(s, i, LEVELS_RE[k])
                    /\ \A h \in 1..(i - 1) : ~MatchAt(s, h, LEVELS_RE[k])
         IN  [found |-> TRUE, start |-> i, end |-> i + Len(LEVELS_RE[k]) - 1]
    ELSE NoMatch

\* LEVELS_RE.search(s)
Search(s) == SearchFrom(s, 1)

---------------------------------------------------------------------------
(* parse_log_line                                                         *)

NoRecord == [date |-> <<>>, time |-> <<>>, level |-> <<>>, message |-> <<>>]

\* a call that returned value
Returned(value) == [raises |-> "none", detail |-> <<>>, value |-> value]

\* a call that raised ValueError(msg + detail)
ValueError(msg, detail) == [raises |-> msg, detail |-> detail, value |-> NoRecord]

EmptyLine == "Empty line"
MissingFields == "Invalid log line (no date/time/rest): "
LevelNotFound == "Log level not found in line: "

SEPARATORS == {" ", ":", ".", "-"}

\* a plausible slip: the level is looked for in the whole line, not in rest
parse_log_line_whole(l) ==
    LET ln == RStrip(l, {"\n"})
        parts == Split(Strip(ln), 2)
        rest == Strip(ln)
        m == Search(rest)
    IN  IF Strip(ln) = <<>> THEN ValueError(EmptyLine, <<>>)
        ELSE IF Len(parts) < 3 THEN ValueError(MissingFields, ln)
        ELSE IF ~m.found THEN ValueError(LevelNotFound, ln)
        ELSE Returned([date |-> parts[1], time |-> parts[2],
                       level |-> Upper(SubSeq(rest, m.start, m.end)),
                       message |-> LStrip(SubSeq(rest, m.end + 1, Len(rest)),
                                          SEPARATORS)])

parse_log_line(l) ==
    LET ln == RStrip(l, {"\n"})
        parts == Split(Strip(ln), 2)
        rest == parts[3]
        m == Search(rest)
    IN  IF Strip(ln) = <<>> THEN ValueError(EmptyLine, <<>>)
        ELSE IF Len(parts) < 3 THEN ValueError(MissingFields, ln)
        ELSE IF ~m.found THEN ValueError(LevelNotFound, ln)
        ELSE Returned([date |-> parts[1], time |-> parts[2],
                       level |-> Upper(SubSeq(rest, m.start, m.end)),
                       message |-> LStrip(SubSeq(rest, m.end + 1, Len(rest)),
                                          SEPARATORS)])

---------------------------------------------------------------------------
(* filter_logs_by_level, count_logs_by_level, display_log_counts and what  *)
(* print writes: one record per printed line.                              *)

\* one printed line: its kind, the fixed wording it carries, the strings
\* formatted into it and the number formatted into it
Printed(kind, what, text, count) ==
    [kind |-> kind, what |-> what, text |-> text, count |-> count]

filter_logs_by_level(ls, level) ==
    LET lvl == Upper(level)
    IN  SelectSeq(ls, LAMBDA log : log.level = lvl)

\* dict.get(key, default)
Get(d, key, default) == IF key \in DOMAIN d THEN d[key] ELSE default

\* the dict after the loop over ls: the dict after the loop over all but the
\* last record, with the last record's level counted
RECURSIVE count_logs_by_level(_)
count_logs_by_level(ls) ==
    IF ls = <<>> THEN <<>>
    ELSE LET counts == count_logs_by_level(SubSeq(ls, 1, Len(ls) - 1))
             lvl == ls[Len(ls)].level
         IN  (lvl :> Get(counts, lvl, 0) + 1) @@ counts

\* the levels display_log_counts lists, in its order
DISPLAYED == <<INFO, DEBUG, ERROR, WARNING>>

\* what display_log_counts prints: the two heading lines and a row per level
display_log_counts(counts) ==
    <<Printed("heading", "Logging Level     | Count", <<>>, 0),
      Printed("heading", "------------------|-------", <<>>, 0)>>
    \o [k \in DOMAIN DISPLAYED |->
            Printed("row", "", <<DISPLAYED[k]>>, Get(counts, DISPLAYED[k], 0))]

---------------------------------------------------------------------------
(* The values the variables of a program hold while the other runs.       *)

NotCalled == [raises |-> "not called", detail |-> <<>>, value |-> NoRecord]

ParseIdle == line = <<>> /\ nPieces = 0 /\ parsed = NotCalled

LogIdle ==
    /\ argv = <<>> /\ pc = "idle" /\ fileOpen = FALSE /\ source = <<>>
    /\ logs = <<>> /\ eof = FALSE /\ exc = "none" /\ out = <<>> /\ exitCode = -1

NoResponse == [what |-> "nothing printed", text |-> <<>>]

BotIdle == contacts = <<>> /\ inputs = <<>> /\ response = NoResponse /\ running = FALSE

---------------------------------------------------------------------------
(* SpecParse: parse_log_line applied to the lines made of a head (what     *)
(* stands before the third part) and at most MaxPieces pieces.             *)

MaxPieces == 3

\* "2024-01-22 12:45:05 DEBUGChecking system health.", the docstring's line
GluedLine ==
    <<"2","0","2","4","-","0","1","-","2","2"," ","1","2",":","4","5",":","0","5"," ">>
    \o DEBUG \o <<"C","h","e","c","k","i","n","g"," ","s","y","s","t","e","m"," ">>
    \o <<"h","e","a","l","t","h",".">>

Heads ==
    { <<>>,
      <<"d", " ">>,
      <<"d", " ", "t", " ">>,
      <<" ", "\t", "d", " ", " ", "t", "\t", " ">>,
      INFO \o <<" ">> \o <<"D","e","b","u","g">> \o <<" ">>,
      <<"d", " ", "t", " ", "x">> \o <<"D","e","b","u","g">>,
      <<"d", " ", "t", " ", "W","A","R","N">>,
      <<"d", " ", "t", " ", "U+0131","n","f","o">>,
      GluedLine }

Pieces ==
    { INFO,
      <<"U+0130","N","F","O">>,
      <<"D","e","b","u","g">>,
      ERROR,
      WARNING,
      <<" ">>,
      <<":", "-", ".">>,
      <<"\n">> }

InitParse ==
    /\ line \in Heads
    /\ nPieces = 0
    /\ parsed = NotCalled
    /\ LogIdle
    /\ BotIdle

\* the caller extends the line it is about to pass
AppendPiece(p) ==
    /\ parsed = NotCalled
    /\ nPieces < MaxPieces
    /\ line' = line \o p
    /\ nPieces' = nPieces + 1
    /\ UNCHANGED <<parsed, logVars, botVars>>

\* the call parse_log_line(line)
Parse ==
    /\ parsed = NotCalled
    /\ parsed' = parse_log_line(line)
    /\ UNCHANGED <<line, nPieces, logVars, botVars>>

NextParse ==
    \/ \E p \in Pieces : AppendPiece(p)
    \/ Parse

SpecParse == InitParse /\ [][NextParse]_vars

---------------------------------------------------------------------------
(* What the claims about parse_log_line speak of, stated on the line       *)
(* itself and not by the steps of the function.                            *)

KnownLevels == {INFO, DEBUG, ERROR, WARNING}

Called == parsed.raises # "not called"

Blank(l) == \A i \in DOMAIN l : IsSpace(l[i])

\* the offsets at which a whitespace-separated part of l starts
PartStarts(l) == {i \in DOMAIN l : ~IsSpace(l[i]) /\ (i = 1 \/ IsSpace(l[i - 1]))}

\* the offset of the last character of l that is not whitespace
LastInk(l) == CHOOSE i \in DOMAIN l : ~IsSpace(l[i]) /\ \A j \in (i + 1)..Len(l) : IsSpace(l[j])

HasThreeParts(l) == Cardinality(PartStarts(l)) >= 3

\* the third part of a split with at most two splits: from the third start to
\* the last character that is not whitespace
ThirdPart(l) ==
    LET i3 == CHOOSE i \in PartStarts(l) :
                 Cardinality({j \in PartStarts(l) : j < i}) = 2
    IN  SubSeq(l, i3, LastInk(l))

\* the offsets of s at which a level keyword occurs, in any letter case
Occurrences(s) == {i \in DOMAIN s : \E kw \in KnownLevels : MatchAt(s, i, kw)}

Min(S) == CHOOSE i \in S : \A j \in S : i <= j

\* the keyword that occurs in s at offset i
KeywordAt(s, i) == CHOOSE kw \in KnownLevels : MatchAt(s, i, kw)

\* C1: every non-blank line of three parts whose third part holds a level
\* keyword in any letter case parses, and every record parse_log_line returns
\* has an upper-case level that is one of INFO, DEBUG, ERROR, WARNING.
C1_LevelIsKnown ==
    Called =>
        /\ (~Blank(line) /\ HasThreeParts(line) /\ Occurrences(ThirdPart(line)) # {}
                => parsed.raises = "none")
        /\ (parsed.raises = "none" =>
                /\ parsed.value.level \in KnownLevels
                /\ Upper(parsed.value.level) = parsed.value.level)

---------------------------------------------------------------------------
(* SpecLog: one run of task_3.main. The command line is drawn from Argvs,  *)
(* whether open() and the reads succeed is the environment's choice, and   *)
(* the file's lines are drawn from SourceLines as the iterator yields them, *)
(* at most MaxLines of them.                                               *)

MaxLines == 3

PROG == <<"t","a","s","k","_","3",".","p","y">>
PATH == <<"a",".","l","o","g">>

Argvs ==
    { <<PROG>>,
      <<PROG, PATH>>,
      <<PROG, PATH, <<>>>>,
      <<PROG, PATH, <<"e","r","r","o","r">>>>,
      <<PROG, PATH, <<"U+0130","n","f","o">>>>,
      <<PROG, PATH, <<"t","r","a","c","e">>>> }

SourceLines ==
    { <<"d"," ","t"," ">> \o DEBUG \o <<" ","o","k",".","\n">>,
      <<"d"," ","t"," ">> \o ERROR \o <<"D","i","s","k"," ","f","u","l","l","\n">>,
      <<"\n">>,
      <<"g","a","r","b","a","g","e"," ","l","i","n","e","\n">>,
      <<"d"," ","t"," ","e","r","r","o","r",":"," ","t","r","a","c","e">>,
      <<"d"," ","t"," ","U+0130","N","F","O"," ","u","p","\n">> }

OpenOutcomes == {"opened", "FileNotFoundError", "PermissionError", "IsADirectoryError"}
ReadErrors == {"OSError", "UnicodeDecodeError"}

InitLog ==
    /\ argv \in Argvs
    /\ pc = "main"
    /\ fileOpen = FALSE
    /\ source = <<>>
    /\ logs = <<>>
    /\ eof = FALSE
    /\ exc = "none"
    /\ out = <<>>
    /\ exitCode = -1
    /\ ParseIdle
    /\ BotIdle

\* main, lines 83-85: no path argument
Usage ==
    /\ pc = "main"
    /\ Len(argv) < 2
    /\ out' = Append(out, Printed("fatal", "Usage: python task_3.py path/to/logfile.log [level]", <<>>, 0))
    /\ exitCode' = 1
    /\ pc' = "exited"
    /\ UNCHANGED <<argv, fileOpen, source, logs, eof, exc, parseVars, botVars>>

\* main calls load_logs, which opens the file: open() returns the file, which
\* the with statement holds from then on, or raises before the block is entered
Open(outcome) ==
    /\ pc = "main"
    /\ Len(argv) >= 2
    /\ IF outcome = "opened"
       THEN fileOpen' = TRUE /\ pc' = "reading" /\ exc' = exc
       ELSE fileOpen' = FALSE /\ pc' = "except" /\ exc' = outcome
    /\ UNCHANGED <<argv, source, logs, eof, out, exitCode, parseVars, botVars>>

\* only the last line of a file can lack its newline: the iterator yields a
\* further line only after a line that ended in one
YieldsMore ==
    IF source = <<>> THEN TRUE
    ELSE source[Len(source)][Len(source[Len(source)])] = "\n"

\* a plausible slip: a line that fails to parse ends the loop
ReadLineBreak(l) ==
    LET r == parse_log_line(l)
    IN  /\ pc = "reading"
        /\ Len(source) < MaxLines
        /\ YieldsMore
        /\ source' = Append(source, l)
        /\ IF Strip(l) = <<>> THEN UNCHANGED <<logs, out, pc>>
           ELSE IF r.raises = "none"
           THEN logs' = Append(logs, r.value) /\ UNCHANGED <<out, pc>>
           ELSE /\ out' = Append(out, Printed("warning", r.raises, <<r.detail>>, 0))
                /\ pc' = "with_exit"
                /\ UNCHANGED logs
        /\ UNCHANGED <<argv, fileOpen, eof, exc, exitCode, parseVars, botVars>>

\* one iteration of the for loop of load_logs: the iterator yields l
ReadLine(l) ==
    LET r == parse_log_line(l)
    IN  /\ pc = "reading"
        /\ Len(source) < MaxLines
        /\ YieldsMore
        /\ source' = Append(source, l)
        /\ IF Strip(l) = <<>> THEN UNCHANGED <<logs, out>>
           ELSE IF r.raises = "none"
           THEN logs' = Append(logs, r.value) /\ UNCHANGED out
           ELSE /\ out' = Append(out, Printed("warning", r.raises, <<r.detail>>, 0))
                /\ UNCHANGED logs
        /\ UNCHANGED <<argv, pc, fileOpen, eof, exc, exitCode, parseVars, botVars>>

\* the iterator is exhausted: the for loop ends and the with block is left
EndOfFile ==
    /\ pc = "reading"
    /\ eof' = TRUE
    /\ pc' = "with_exit"
    /\ UNCHANGED <<argv, fileOpen, source, logs, exc, out, exitCode, parseVars, botVars>>

\* a plausible slip: the file is opened without with, so an exception raised
\* by a read goes to the handlers with the file open
ReadFailsNoWith(e) ==
    /\ pc = "reading"
    /\ exc' = e
    /\ pc' = "except"
    /\ UNCHANGED <<argv, fileOpen, source, logs, eof, out, exitCode, parseVars, botVars>>

\* the iterator raises e instead of yielding a line: the exception leaves the
\* with block
ReadFails(e) ==
    /\ pc = "reading"
    /\ exc' = e
    /\ pc' = "with_exit"
    /\ UNCHANGED <<argv, fileOpen, source, logs, eof, out, exitCode, parseVars, botVars>>

\* the with statement closes the file, however the block was left
WithExit ==
    /\ pc = "with_exit"
    /\ fileOpen' = FALSE
    /\ pc' = IF exc = "none" THEN "loaded" ELSE "except"
    /\ UNCHANGED <<argv, source, logs, eof, exc, out, exitCode, parseVars, botVars>>

\* the message of the except clause that catches e
FatalMessage(e) ==
    IF e = "FileNotFoundError" THEN "File not found."
    ELSE IF e = "PermissionError" THEN "Permission denied for file."
    ELSE "Error reading file: "

\* a plausible slip: the last except clause prints and does not exit, so
\* load_logs goes on to return logs
ExceptNoExit ==
    /\ pc = "except"
    /\ out' = Append(out, Printed("fatal", FatalMessage(exc), <<argv[2]>>, 0))
    /\ IF exc \in {"FileNotFoundError", "PermissionError"}
       THEN exitCode' = 1 /\ pc' = "exited"
       ELSE exitCode' = exitCode /\ pc' = "loaded"
    /\ UNCHANGED <<argv, fileOpen, source, logs, eof, exc, parseVars, botVars>>

\* the except clauses of load_logs: print the message, sys.exit(1)
Except ==
    /\ pc = "except"
    /\ out' = Append(out, Printed("fatal", FatalMessage(exc), <<argv[2]>>, 0))
    /\ exitCode' = 1
    /\ pc' = "exited"
    /\ UNCHANGED <<argv, fileOpen, source, logs, eof, exc, parseVars, botVars>>

\* what main prints for its level argument, lines 94-104
Details(ls, level_arg) ==
    IF level_arg = <<>> THEN <<>>
    ELSE LET level == Upper(level_arg)
             filtered == filter_logs_by_level(ls, level)
         IN  <<Printed("details heading", "Log details for level", <<level>>, 0)>>
             \o IF filtered = <<>>
                THEN <<Printed("no entries", "No log entries for this level.", <<>>, 0)>>
                ELSE [k \in DOMAIN filtered |->
                        Printed("entry", "", <<filtered[k].date, filtered[k].time,
                                               filtered[k].message>>, 0)]

\* load_logs has returned logs: main counts, displays, lists and returns
Report ==
    /\ pc = "loaded"
    /\ out' = out \o display_log_counts(count_logs_by_level(logs))
                  \o IF Len(argv) > 2 THEN Details(logs, argv[3]) ELSE <<>>
    /\ exitCode' = 0
    /\ pc' = "exited"
    /\ UNCHANGED <<argv, fileOpen, source, logs, eof, exc, parseVars, botVars>>

NextLog ==
    \/ Usage
    \/ \E outcome \in OpenOutcomes : Open(outcome)
    \/ \E l \in SourceLines : ReadLine(l)
    \/ EndOfFile
    \/ \E e \in ReadErrors : ReadFails(e)
    \/ WithExit
    \/ Except
    \/ Report

SpecLog == InitLog /\ [][NextLog]_vars

---------------------------------------------------------------------------
(* What the claims about a run of task_3 speak of.                         *)

\* the k-th smallest element of a set of numbers
Nth(S, k) == CHOOSE i \in S : Cardinality({j \in S : j < i}) = k - 1

\* the printed lines of one kind, in the order printed
OfKind(kind) == SelectSeq(out, LAMBDA p : p.kind = kind)

\* what parse_log_line does with each line the source has yielded
Outcomes == [i \in DOMAIN source |-> parse_log_line(source[i])]

\* the lines of the source that parse, and the non-blank ones that do not
Parsing == {i \in DOMAIN source : ~Blank(source[i]) /\ Outcomes[i].raises = "none"}
Malformed == {i \in DOMAIN source : ~Blank(source[i]) /\ Outcomes[i].raises # "none"}

\* C4: logs holds exactly the records of the lines that parse, in source
\* order; a blank line gives no record and no warning; a malformed line gives
\* one warning, no record, and does not end the load: load_logs returns only
\* when the source is exhausted.
C4_LoadSkipsAndContinues ==
    pc # "idle" =>
        LET outcomes == Outcomes
            parsing == {i \in DOMAIN source :
                          ~Blank(source[i]) /\ outcomes[i].raises = "none"}
            malformed == {i \in DOMAIN source :
                          ~Blank(source[i]) /\ outcomes[i].raises # "none"}
            warnings == OfKind("warning")
        IN  /\ Len(logs) = Cardinality(parsing)
            /\ \A k \in DOMAIN logs :
                  /\ logs[k] = outcomes[Nth(parsing, k)].value
                  /\ logs[k] # NoRecord
            /\ Len(warnings) = Cardinality(malformed)
            /\ \A k \in DOMAIN warnings :
                  warnings[k].text = <<RStrip(source[Nth(malformed, k)], {"\n"})>>
            /\ (pc = "loaded" => eof)
            /\ (pc = "reading" => ~eof /\ exc = "none")

\* load_logs has returned after a malformed line, a blank line and then a
\* line that parses
C4_Witness ==
    /\ pc = "loaded"
    /\ \E i, j, k \in DOMAIN source :
          /\ i < j /\ j < k
          /\ i \in Malformed /\ Blank(source[j]) /\ k \in Parsing

ReportKinds == {"heading", "row", "details heading", "entry", "no entries"}

\* how a finished run looks, given whether a level counts as given
RunOutcome(levelGiven) ==
    pc = "exited" =>
        IF Len(argv) < 2 \/ exc # "none"
        THEN /\ exitCode = 1
             /\ Len(OfKind("fatal")) = 1
             /\ \A j \in DOMAIN out : out[j].kind \notin ReportKinds
        ELSE /\ exitCode = 0
             /\ Len(OfKind("fatal")) = 0
             /\ Len(OfKind("heading")) = 2
             /\ Len(OfKind("row")) = 4
             /\ (levelGiven =>
                    /\ Len(OfKind("details heading")) = 1
                    /\ (Len(OfKind("entry")) > 0 <=> Len(OfKind("no entries")) = 0)
                    /\ Len(OfKind("no entries")) <= 1)

\* C5 as stated: a run without path or with a failed open or read prints one
\* fatal message, exits non-zero and prints no report; every other run prints
\* the table, and the listing or the no-entries line when a level is given,
\* and exits zero.
C5_AsStated == RunOutcome(Len(argv) > 2)

\* C5 amended: the same, with the listing or the no-entries line promised
\* when a non-empty level argument is given; an empty level argument is
\* treated as no level, and then the table is all the report.
C5_FatalOrReport ==
    /\ RunOutcome(Len(argv) > 2 /\ argv[3] # <<>>)
    /\ (pc = "exited" /\ exitCode = 0 /\ (Len(argv) <= 2 \/ argv[3] = <<>>) =>
            \A j \in DOMAIN out :
                out[j].kind \notin {"details heading", "entry", "no entries"})

\* a read failed after a record was loaded and a warning printed, with a
\* level on the command line
C5_Witness ==
    /\ pc = "exited"
    /\ exc \in ReadErrors
    /\ logs # <<>>
    /\ Len(OfKind("warning")) > 0
    /\ Len(argv) > 2
    /\ argv[3] # <<>>

\* the number of records of ls with level lvl
NumberOf(ls, lvl) == Cardinality({i \in DOMAIN ls : ls[i].level = lvl})

\* C6: the table has the four rows INFO, DEBUG, ERROR, WARNING in this order,
\* each with the number of loaded records of its level, and the four numbers
\* add up to the number of loaded records.
C6_CountsTable ==
    (pc = "exited" /\ exitCode = 0) =>
        LET rows == OfKind("row")
            order == <<INFO, DEBUG, ERROR, WARNING>>
        IN  /\ Len(rows) = 4
            /\ \A k \in 1..4 :
                  /\ rows[k].text = <<order[k]>>
                  /\ rows[k].count = NumberOf(logs, order[k])
            /\ rows[1].count + rows[2].count + rows[3].count + rows[4].count
                  = Len(logs)

\* C7: filtering the loaded records by the level argument gives the records
\* whose level is the argument in upper case, in their order, the list itself
\* untouched, and nothing when the level is not one of the four known levels.
C7_FilterByLevel ==
    (pc = "exited" /\ exitCode = 0 /\ Len(argv) > 2) =>
        LET filtered == filter_logs_by_level(logs, argv[3])
            hits == {i \in DOMAIN logs : logs[i].level = Upper(argv[3])}
        IN  /\ Len(filtered) = Cardinality(hits)
            /\ \A k \in DOMAIN filtered : filtered[k] = logs[Nth(hits, k)]
            /\ (argv[3] # <<>> =>
                    /\ Len(OfKind("entry")) = Len(filtered)
                    /\ \A k \in DOMAIN filtered :
                          OfKind("entry")[k].text =
                              <<filtered[k].date, filtered[k].time, filtered[k].message>>)
            /\ (Upper(argv[3]) \notin KnownLevels => filtered = <<>>)

\* C10: the file is open while the loop reads, also after a line failed to
\* parse, and closed before load_logs returns, before an except clause runs
\* and when the process exits.
C10_FileReleased ==
    /\ (pc = "reading" => fileOpen)
    /\ (pc \in {"loaded", "except", "exited"} => ~fileOpen)

\* the process has exited on a read error that followed a malformed line
C10_Witness ==
    /\ pc = "exited"
    /\ exc \in ReadErrors
    /\ Malformed # {}
    /\ ~fileOpen

---------------------------------------------------------------------------
(* task_4.py. The dict contacts is the sequence of its items, in insertion *)
(* order; a returned string is its fixed wording and the strings formatted *)
(* into it.                                                                *)

\* a returned string: a fixed wording with the strings formatted into it
Text(what, text) == [what |-> what, text |-> text]

\* None and the empty string are both false to "if not command"
None == <<>>

\* a plausible slip: the command word is not lower-cased
parse_input_as_typed(user_input) ==
    LET parts == Split(user_input, -1)
    IN  IF parts = <<>> THEN [cmd |-> None, args |-> <<>>]
        ELSE [cmd |-> Strip(Head(parts)), args |-> Tail(parts)]

parse_input(user_input) ==
    LET parts == Split(user_input, -1)
    IN  IF parts = <<>> THEN [cmd |-> None, args |-> <<>>]
        ELSE [cmd |-> Lower(Strip(Head(parts))), args |-> Tail(parts)]

\* name in contacts
In(name, d) == \E i \in DOMAIN d : d[i].name = name

\* contacts[name]
Item(d, name) == d[CHOOSE i \in DOMAIN d : d[i].name = name].phone

\* the dict after contacts[name] = phone: a known key keeps its place
SetItem(d, name, phone) ==
    IF In(name, d)
    THEN [i \in DOMAIN d |-> IF d[i].name = name
                              THEN [name |-> name, phone |-> phone] ELSE d[i]]
    ELSE Append(d, [name |-> name, phone |-> phone])

\* what a function returns and the dict it leaves
Outcome(returned, d) == [returned |-> returned, contacts |-> d]

add_contact(args, d) ==
    IF Len(args) # 2
    THEN Outcome(Text("Invalid command format. Use: add [name] [phone]", <<>>), d)
    ELSE Outcome(Text("Contact added.", <<>>), SetItem(d, args[1], args[2]))

\* a plausible slip: the phone is stored without asking whether the name exists
change_contact_unchecked(args, d) ==
    IF Len(args) # 2
    THEN Outcome(Text("Invalid command format. Use: change [name] [new phone]", <<>>), d)
    ELSE Outcome(Text("Contact updated.", <<>>), SetItem(d, args[1], args[2]))

change_contact(args, d) ==
    IF Len(args) # 2
    THEN Outcome(Text("Invalid command format. Use: change [name] [new phone]", <<>>), d)
    ELSE IF In(args[1], d)
    THEN Outcome(Text("Contact updated.", <<>>), SetItem(d, args[1], args[2]))
    ELSE Outcome(Text("Contact not found.", <<args[1]>>), d)

show_phone(args, d) ==
    IF Len(args) # 1
    THEN Outcome(Text("Invalid command format. Use: phone [name]", <<>>), d)
    ELSE IF In(args[1], d)
    THEN Outcome(Text("", <<Item(d, args[1])>>), d)
    ELSE Outcome(Text("Contact not found.", <<args[1]>>), d)

show_all(d) ==
    IF d = <<>>
    THEN Outcome(Text("No contacts found.", <<>>), d)
    ELSE Outcome(Text("Contacts list:", [i \in DOMAIN d |-> <<d[i].name, d[i].phone>>]), d)

CLOSE == <<"c","l","o","s","e">>
EXIT == <<"e","x","i","t">>
HELLO == <<"h","e","l","l","o">>
ADD == <<"a","d","d">>
CHANGE == <<"c","h","a","n","g","e">>
PHONE == <<"p","h","o","n","e">>
ALL == <<"a","l","l">>

\* what one iteration of the loop of main does with the line input() returned:
\* what it prints, the dict it leaves and whether the loop goes on
Iteration(user_input, d) ==
    LET p == parse_input(user_input)
        go(o) == [printed |-> o.returned, contacts |-> o.contacts, continues |-> TRUE]
    IN  IF p.cmd = None THEN go(Outcome(Text("Please enter a command.", <<>>), d))
        ELSE IF p.cmd \in {CLOSE, EXIT}
        THEN [printed |-> Text("Good bye!", <<>>), contacts |-> d, continues |-> FALSE]
        ELSE IF p.cmd = HELLO THEN go(Outcome(Text("How can I help you?", <<>>), d))
        ELSE IF p.cmd = ADD THEN go(add_contact(p.args, d))
        ELSE IF p.cmd = CHANGE THEN go(change_contact(p.args, d))
        ELSE IF p.cmd = PHONE THEN go(show_phone(p.args, d))
        ELSE IF p.cmd = ALL THEN go(show_all(d))
        ELSE go(Outcome(Text("Invalid command.", <<>>), d))

---------------------------------------------------------------------------
(* SpecBot: one session of task_4.main, its input lines drawn from         *)
(* UserInputs, at most MaxInputs of them.                                  *)

MaxInputs == 3

BOB == <<"B","o","b">>
AL == <<"A","l">>

UserInputs ==
    { <<>>,
      HELLO,
      ADD \o <<" ">> \o BOB \o <<" ","1","2","3">>,
      <<"A","D","D"," "," ">> \o AL \o <<" ","1"," ">>,
      ADD \o <<" ">> \o BOB,
      CHANGE \o <<" ">> \o BOB \o <<" ","4","5","6">>,
      CHANGE \o <<" ">> \o AL \o <<" ","0","0","0">>,
      PHONE \o <<" ">> \o BOB,
      <<" ","P","h","o","n","e","\t">> \o AL,
      PHONE,
      ALL,
      <<"r","e","m","o","v","e"," ">> \o BOB,
      <<"E","X","U+0130","T">>,
      <<"E","x","i","t"," ","n","o","w">>,
      CLOSE }

InitBot ==
    /\ contacts = <<>>
    /\ inputs = <<>>
    /\ response = Text("Welcome to the assistant bot!", <<>>)
    /\ running = TRUE
    /\ ParseIdle
    /\ LogIdle

\* one iteration of the while loop: input() returns user_input
Command(user_input) ==
    LET it == Iteration(user_input, contacts)
    IN  /\ running
        /\ Len(inputs) < MaxInputs
        /\ inputs' = Append(inputs, user_input)
        /\ response' = it.printed
        /\ contacts' = it.contacts
        /\ running' = it.continues
        /\ UNCHANGED <<parseVars, logVars>>

NextBot == \E user_input \in UserInputs : Command(user_input)

SpecBot == InitBot /\ [][NextBot]_vars

---------------------------------------------------------------------------
(* What the claims about the contact book speak of, stated on the lines    *)
(* the session has read.                                                   *)

\* whether word w is keyword kw up to the case of its letters
SameWord(w, kw) ==
    /\ Len(w) = Len(kw)
    /\ \A j \in DOMAIN kw : w[j] = kw[j] \/ w[j] = TO_UPPER[kw[j]]

\* the words of each line the session has read
Words == [i \in DOMAIN inputs |-> Split(inputs[i], -1)]

\* whether the i-th line read, of words w, is command kw with n arguments
IsCommand(w, i, kw, n) ==
    /\ w[i] # <<>>
    /\ SameWord(w[i][1], kw)
    /\ Len(w[i]) = n + 1

Adds(w, i, name) == IsCommand(w, i, ADD, 2) /\ w[i][2] = name

Changes(w, i, name) ==
    /\ IsCommand(w, i, CHANGE, 2) /\ w[i][2] = name
    /\ \E j \in 1..(i - 1) : Adds(w, j, name)

\* the lines that gave name a phone
Sets(w, name) == {i \in DOMAIN w : Adds(w, i, name) \/ Changes(w, i, name)}

Max(S) == CHOOSE i \in S : \A j \in S : j <= i

\* every name the session has read, and a name it has not
NamesAsked(w) == {w[i][2] : i \in {j \in DOMAIN w : Len(w[j]) >= 2}} \cup {BOB, AL, <<"Z">>}

\* what 'phone name' is to answer after the lines read
Expected(w, name) ==
    IF Sets(w, name) = {} THEN Text("Contact not found.", <<name>>)
    ELSE Text("", <<w[Max(Sets(w, name))][3]>>)

\* C8: 'phone name' answers the phone of the latest successful add or change
\* of the name, or that the contact is not found; change of a name never
\* added answers not found and creates nothing; the names held are the names
\* added, whatever other lines were read.
C8_PhoneIsLatestSet ==
    running \/ inputs # <<>> =>
        LET n == Len(inputs)
            w == Words
        IN  /\ \A name \in NamesAsked(w) :
                  show_phone(<<name>>, contacts).returned = Expected(w, name)
            /\ {contacts[i].name : i \in DOMAIN contacts}
                  = {name \in NamesAsked(w) : \E i \in DOMAIN w : Adds(w, i, name)}
            /\ (n > 0 /\ IsCommand(w, n, PHONE, 1) => response = Expected(w, w[n][2]))
            /\ (n > 0 /\ IsCommand(w, n, CHANGE, 2) /\ Sets(w, w[n][2]) = {}
                    => response = Text("Contact not found.", <<w[n][2]>>))

\* 'phone Bob' answered with the changed phone
C8_Witness ==
    /\ Len(inputs) = 3
    /\ Adds(Words, 1, BOB)
    /\ Changes(Words, 2, BOB)
    /\ Words[1][3] # Words[2][3]
    /\ IsCommand(Words, 3, PHONE, 1) /\ Words[3][2] = BOB
    /\ response = Text("", <<Words[2][3]>>)

\* whether the line of words ws is close or exit, with or without arguments
Closes(ws) ==
    /\ ws # <<>>
    /\ SameWord(ws[1], CLOSE) \/ SameWord(ws[1], EXIT)

\* whether the line of words ws starts with a word that is no command
Unrecognized(ws) ==
    /\ ws # <<>>
    /\ \A kw \in {CLOSE, EXIT, HELLO, ADD, CHANGE, PHONE, ALL} : ~SameWord(ws[1], kw)

\* C9: the loop has ended exactly when the last line read was close or exit,
\* in any letter case and whatever its arguments; every other line got a
\* response, 'Invalid command.' when unrecognized, and the loop went on.
C9_EndsOnlyOnCloseOrExit ==
    running \/ inputs # <<>> =>
        LET n == Len(inputs)
            w == Words
        IN  /\ \A i \in 1..(n - 1) : ~Closes(w[i])
            /\ (running <=> (n = 0 \/ ~Closes(w[n])))
            /\ (n > 0 => response # NoResponse /\ (response.what # "" \/ response.text # <<>>))
            /\ (n > 0 /\ Unrecognized(w[n]) => response = Text("Invalid command.", <<>>))
            /\ (n > 0 /\ Closes(w[n]) => response = Text("Good bye!", <<>>))

\* the loop ended on 'Exit now' after an unrecognized line and an empty line
C9_Witness ==
    /\ ~running
    /\ Len(inputs) = 3
    /\ \E i, j \in 1..2 : Unrecognized(Words[i]) /\ Words[j] = <<>>
    /\ SameWord(Words[3][1], EXIT) /\ Len(Words[3]) = 2 /\ Words[3][1] # EXIT

============================================================================
